---- MODULE Spec2Model ----
(***************************************************************************)
(* CentralAIBrain (src/app/ai/central_brain.py) as a state machine.        *)
(*                                                                         *)
(* The brain is one object used by coroutines of a single asyncio loop.    *)
(* A coroutine runs without interruption from one await of a collaborator  *)
(* to the next, so every action below is one such segment of a method:     *)
(* "<method>_call" is the segment from the call to the first await, and    *)
(* the later segments are named after the await that has just returned.    *)
(* Collaborators (OllamaClient, ContextManager, the agents) are outside    *)
(* the file: each awaited call of one either returns or raises, and the    *)
(* model takes both.                                                       *)
(***************************************************************************)
EXTENDS Integers, Sequences, FiniteSets, TLC

\* ---------------------------------------------------------------- bounds
MaxCount == 2    \* turns that may increment interaction_count
MaxStarts == 2   \* calls of start

\* Two coroutines are in flight at a time; a slot is reused once its call
\* has returned, so any number of calls follow one another.
Tasks == {1, 2}

\* ------------------------------------------------------------ input data
Messages == {"hi"}
ContextTypes == {"chat", "system_control"}
Dispositions == {"execute", "request_confirmation", "request_clarification", "deny"}

ActionIds == {"a1", "a2"}

\* Python's None where an object is expected, and the unset text of an idle slot.
None == [none |-> TRUE]
NoText == "None"
ContextSummary == [summary |-> "context"]

VARIABLES
    is_running,         \* self.is_running
    startup_time,       \* self.startup_time: None or the stamp of a start
    interaction_count,  \* self.interaction_count
    ollama_client,      \* self.ollama_client: None or the client object
    context_manager,    \* self.context_manager is set
    user_interface,     \* self.user_interface is set
    agent_orchestrator, \* self.agent_orchestrator is set
    embryo_trainer,     \* self.embryo_trainer is set
    system_controller,  \* self.system_controller is set
    nstarts,            \* OllamaClient objects constructed so far
    tasks               \* the coroutines in flight, one per slot

brain == <<is_running, startup_time, interaction_count, ollama_client,
           context_manager, nstarts>>
agents == <<user_interface, agent_orchestrator, embryo_trainer, system_controller>>
vars == <<is_running, startup_time, interaction_count, ollama_client,
          context_manager, user_interface, agent_orchestrator, embryo_trainer,
          system_controller, nstarts, tasks>>

\* ------------------------------------------------------------- coroutines
\* A slot holds one call of a public method: the method (op), the await it is
\* suspended at (pc), its arguments and locals, what it returned (result) or
\* that it raised (pc = "raised").  The remaining fields record what the call
\* did to the collaborators and to the counter.
IdleTask ==
    [op |-> NoText, pc |-> "idle", msg |-> NoText, ctype |-> NoText,
     action |-> None, resp |-> <<>>, left |-> <<>>, out |-> <<>>,
     client |-> 0, result |-> None,
     written |-> <<>>,   \* records this call passed to update_context
     acked |-> 0,        \* update_context calls of this call that returned
     executed |-> <<>>,  \* dispositions this call passed to the executor
     touched |-> FALSE,  \* this call called a collaborator
     incs |-> 0,         \* increments of interaction_count by this call
     count0 |-> 0,       \* interaction_count when the call was made
     wasRunning |-> FALSE, \* is_running when the call was made
     failedAt |-> NoText,  \* the await that raised
     solo |-> TRUE]      \* a turn: no other call was in flight during it

Finished(u) == tasks[u].pc \in {"idle", "done", "raised"}

\* The operations that turn a user message into a response.
Conversational ==
    {"process_user_input", "stream_user_response", "chat_with_user_interface_agent"}

\* start and stop do not look at is_running or at the counter.
NewTask(o) ==
    IF o \in {"start", "stop"}
    THEN [IdleTask EXCEPT !.op = o]
    ELSE [IdleTask EXCEPT !.op = o, !.wasRunning = is_running,
                          !.count0 = IF o \in Conversational
                                     THEN interaction_count ELSE 0]

\* The call in slot t goes on as r.
Put(t, r) == tasks' = [tasks EXCEPT ![t] = r]

\* A call is made in slot t and reaches r in its first segment.
Begin(t, r) ==
    tasks' = [u \in Tasks |->
                IF u = t
                THEN [r EXCEPT !.solo = r.op \in Conversational =>
                                            \A v \in Tasks \ {t} : Finished(v)]
                ELSE IF Finished(u) \/ tasks[u].op \notin Conversational
                THEN tasks[u]
                ELSE [tasks[u] EXCEPT !.solo = FALSE]]

Init ==
    /\ is_running = FALSE
    /\ startup_time = None
    /\ interaction_count = 0
    /\ ollama_client = None
    /\ context_manager = FALSE
    /\ user_interface = FALSE
    /\ agent_orchestrator = FALSE
    /\ embryo_trainer = FALSE
    /\ system_controller = FALSE
    /\ nstarts = 0
    /\ tasks = [t \in Tasks |-> IdleTask]

\* The caller takes the result; the slot is free for the next call.
Return(t) ==
    /\ tasks[t].pc \in {"done", "raised"}
    /\ Put(t, IdleTask)
    /\ UNCHANGED <<brain, agents>>

\* Mutant of get_health_status: a missing client is reported as healthy.
get_health_status_optimistic ==
    [central_brain_running |-> is_running,
     startup_time |-> startup_time,
     interaction_count |-> interaction_count,
     ollama_healthy |-> IF ollama_client # None THEN ollama_client.healthy ELSE TRUE,
     context_manager_status |-> IF context_manager THEN ContextSummary ELSE None]

\* ---------------------------------------------------- health aggregation
\* get_health_status: the status dict it builds from the fields and from the
\* client's own report (the context summary is opaque: only its presence).
get_health_status ==
    [central_brain_running |-> is_running,
     startup_time |-> startup_time,
     interaction_count |-> interaction_count,
     ollama_healthy |-> IF ollama_client # None THEN ollama_client.healthy ELSE FALSE,
     context_manager_status |-> IF context_manager THEN ContextSummary ELSE None]

\* ---------------------------------------------------------------- start
\* Mutant of start_call: the brain is marked running as soon as the client is
\* stored.
start_call_running_early(t) ==
    /\ tasks[t].pc = "idle"
    /\ nstarts < MaxStarts
    /\ \E h \in BOOLEAN :
         ollama_client' = [id |-> nstarts + 1, healthy |-> h, closed |-> FALSE]
    /\ nstarts' = nstarts + 1
    /\ is_running' = TRUE
    /\ Begin(t, [NewTask("start") EXCEPT !.pc = "client_start",
                                         !.client = nstarts + 1,
                                         !.touched = TRUE])
    /\ UNCHANGED <<startup_time, interaction_count, context_manager, agents>>

\* OllamaClient(self.ai_config) is stored, then its start() is awaited.
\* Whether the new client reports healthy is the client's own business.
start_call(t) ==
    /\ tasks[t].pc = "idle"
    /\ nstarts < MaxStarts
    /\ \E h \in BOOLEAN :
         ollama_client' = [id |-> nstarts + 1, healthy |-> h, closed |-> FALSE]
    /\ nstarts' = nstarts + 1
    /\ Begin(t, [NewTask("start") EXCEPT !.pc = "client_start",
                                         !.client = nstarts + 1,
                                         !.touched = TRUE])
    /\ UNCHANGED <<is_running, startup_time, interaction_count, context_manager, agents>>

\* The specialized agents in the order _initialize_specialized_agents
\* constructs them, and the constructor that raised when the first k succeeded.
AgentClasses == <<"UserInterfaceAgent", "AgentOrchestrator", "EmbryoTrainer", "SystemController">>

FailedConstructor(k) == IF k < Len(AgentClasses) THEN AgentClasses[k + 1] ELSE NoText

\* _initialize_specialized_agents: the four constructors run in order inside
\* one try; the first k succeed and, if k < 4, the next one raises, which
\* leaves the later fields as they were.
initialize_specialized_agents(k) ==
    /\ user_interface' = IF k >= 1 THEN TRUE ELSE user_interface
    /\ agent_orchestrator' = IF k >= 2 THEN TRUE ELSE agent_orchestrator
    /\ embryo_trainer' = IF k >= 3 THEN TRUE ELSE embryo_trainer
    /\ system_controller' = IF k >= 4 THEN TRUE ELSE system_controller

\* ollama_client.start() has returned or raised.  After it: the ContextManager
\* is constructed, the health status is read (a collaborator's report may
\* raise), and only a healthy client lets the start mark the brain running.
\* Every failure is logged and re-raised.
start_client_started(t) ==
    /\ tasks[t].pc = "client_start"
    /\ \E fault \in {"none", "client_start", "report"} :
         IF fault = "client_start"
         THEN /\ Put(t, [tasks[t] EXCEPT !.pc = "raised", !.failedAt = "client_start"])
              /\ UNCHANGED <<brain, agents>>
         ELSE /\ context_manager' = TRUE
              /\ IF fault = "report"
                 THEN /\ Put(t, [tasks[t] EXCEPT !.pc = "raised", !.failedAt = "report"])
                      /\ UNCHANGED <<is_running, startup_time, agents>>
                 ELSE IF ~get_health_status.ollama_healthy
                 THEN /\ Put(t, [tasks[t] EXCEPT !.pc = "raised", !.failedAt = "unhealthy"])
                      /\ UNCHANGED <<is_running, startup_time, agents>>
                 ELSE /\ is_running' = TRUE
                      /\ startup_time' = [at |-> nstarts]
                      /\ \E k \in 0..4 :
                           /\ initialize_specialized_agents(k)
                           /\ Put(t, [tasks[t] EXCEPT !.pc = "done",
                                                      !.failedAt = FailedConstructor(k)])
              /\ UNCHANGED <<interaction_count, ollama_client, nstarts>>

\* ----------------------------------------------------------------- stop
\* With a client, its close() is awaited first; without one, is_running is
\* cleared at once.
stop_call(t) ==
    /\ tasks[t].pc = "idle"
    /\ IF ollama_client # None
       THEN /\ Begin(t, [NewTask("stop") EXCEPT !.pc = "close",
                                                !.client = ollama_client.id,
                                                !.touched = TRUE])
            /\ UNCHANGED is_running
       ELSE /\ is_running' = FALSE
            /\ Begin(t, [NewTask("stop") EXCEPT !.pc = "done"])
    /\ UNCHANGED <<startup_time, interaction_count, ollama_client, context_manager,
                   nstarts, agents>>

\* close() has returned or raised.  The except clause logs the fault and the
\* method returns; the assignment to is_running is inside the try, after the
\* await.
stop_closed(t) ==
    /\ tasks[t].pc = "close"
    /\ \E fault \in BOOLEAN :
         IF fault
         THEN /\ Put(t, [tasks[t] EXCEPT !.pc = "done", !.failedAt = "close"])
              /\ UNCHANGED <<is_running, ollama_client>>
         ELSE /\ is_running' = FALSE
              /\ ollama_client' =
                    IF ollama_client # None /\ ollama_client.id = tasks[t].client
                    THEN [ollama_client EXCEPT !.closed = TRUE]
                    ELSE ollama_client
              /\ Put(t, [tasks[t] EXCEPT !.pc = "done"])
    /\ UNCHANGED <<startup_time, interaction_count, context_manager, nstarts, agents>>

\* ------------------------------------------------------ conversational turns
\* Text is a sequence of tokens; + on strings is \o.
_get_system_prompt(context_type) ==
    IF context_type = "chat" THEN <<"base_prompt", "casual conversation mode">>
    ELSE IF context_type = "system_control" THEN <<"base_prompt", "system control mode">>
    ELSE IF context_type = "agent_orchestration" THEN <<"base_prompt", "coordinating multiple agents">>
    ELSE IF context_type = "embryo_training" THEN <<"base_prompt", "evaluating embryo training">>
    ELSE <<"base_prompt">>

\* The Generation Client, deterministic: the fragments its stream_response
\* yields for a prompt and a system prompt, and the text its generate_response
\* returns for them, which is the fragments joined.
stream_response(prompt, system_prompt) ==
    << <<"re">>, <<prompt>>, <<system_prompt[Len(system_prompt)]>> >>

RECURSIVE Join(_)
Join(fragments) ==
    IF fragments = <<>> THEN <<>> ELSE Head(fragments) \o Join(Tail(fragments))

generate_response(prompt, system_prompt) == Join(stream_response(prompt, system_prompt))

NotRunningReply ==
    [success |-> FALSE, error |-> "Central AI Brain is not running",
     message |-> "I apologize, but I'm not currently available. Please try again later."]

ErrorReply ==
    [success |-> FALSE, error |-> "fault",
     message |-> "I apologize, but I encountered an error processing your request. Please try again."]

\* The dict process_user_input passes to update_context (response_time left out).
InteractionRecord(user_message, response, context_type) ==
    [user_message |-> user_message, assistant_response |-> response,
     context_type |-> context_type, interaction_id |-> interaction_count]

\* process_user_input up to its first await, entered by the call in r (its own
\* caller or chat_with_user_interface_agent falling back): the running check,
\* the increment, then build_context is awaited.
process_user_input_enter(t, r) ==
    IF ~is_running
    THEN /\ r.pc = "idle" => Begin(t, [r EXCEPT !.pc = "done", !.result = NotRunningReply])
         /\ r.pc # "idle" => Put(t, [r EXCEPT !.pc = "done", !.result = NotRunningReply])
         /\ UNCHANGED interaction_count
    ELSE /\ interaction_count < MaxCount
         /\ interaction_count' = interaction_count + 1
         /\ LET q == [r EXCEPT !.pc = "build", !.incs = @ + 1, !.touched = TRUE]
            IN  /\ r.pc = "idle" => Begin(t, q)
                /\ r.pc # "idle" => Put(t, q)

process_user_input_call(t) ==
    /\ tasks[t].pc = "idle"
    /\ \E m \in Messages, c \in ContextTypes :
         process_user_input_enter(t, [NewTask("process_user_input") EXCEPT
                                         !.pc = "idle", !.msg = m, !.ctype = c])
    /\ UNCHANGED <<is_running, startup_time, ollama_client, context_manager, nstarts, agents>>

\* Mutant of process_user_input_built: a failed context build takes the
\* increment back.
process_user_input_built_rollback(t) ==
    /\ tasks[t].pc = "build"
    /\ tasks[t].op \in {"process_user_input", "chat_with_user_interface_agent"}
    /\ \E fault \in BOOLEAN :
         IF fault \/ ~context_manager \/ ollama_client = None
         THEN /\ Put(t, [tasks[t] EXCEPT !.pc = "done", !.result = ErrorReply,
                                         !.failedAt = "build"])
              /\ interaction_count' = interaction_count - 1
         ELSE /\ Put(t, [tasks[t] EXCEPT !.pc = "generate"])
              /\ UNCHANGED interaction_count
    /\ UNCHANGED <<is_running, startup_time, ollama_client, context_manager, nstarts, agents>>

\* build_context has returned or raised; generate_response is awaited next.
process_user_input_built(t) ==
    /\ tasks[t].pc = "build"
    /\ tasks[t].op \in {"process_user_input", "chat_with_user_interface_agent"}
    /\ \E fault \in BOOLEAN :
         IF fault \/ ~context_manager \/ ollama_client = None
         THEN Put(t, [tasks[t] EXCEPT !.pc = "done", !.result = ErrorReply,
                                      !.failedAt = "build"])
         ELSE Put(t, [tasks[t] EXCEPT !.pc = "generate"])
    /\ UNCHANGED <<brain, agents>>

\* Mutant of process_user_input_generated: update_context is started but not
\* awaited, and the result is returned at once.
process_user_input_generated_unawaited(t) ==
    /\ tasks[t].pc = "generate"
    /\ \E fault \in BOOLEAN :
         IF fault
         THEN Put(t, [tasks[t] EXCEPT !.pc = "done", !.result = ErrorReply,
                                      !.failedAt = "generate"])
         ELSE LET response == generate_response(tasks[t].msg,
                                                _get_system_prompt(tasks[t].ctype))
              IN  Put(t, [tasks[t] EXCEPT
                            !.pc = "done", !.resp = response,
                            !.written = Append(@, InteractionRecord(
                                            tasks[t].msg, response, tasks[t].ctype)),
                            !.result = [success |-> TRUE, message |-> response,
                                        context_type |-> tasks[t].ctype,
                                        interaction_id |-> interaction_count]])
    /\ UNCHANGED <<brain, agents>>

\* generate_response has returned or raised; the record is built from the
\* response and the counter as it is now, and update_context is awaited.
process_user_input_generated(t) ==
    /\ tasks[t].pc = "generate"
    /\ \E fault \in BOOLEAN :
         IF fault
         THEN Put(t, [tasks[t] EXCEPT !.pc = "done", !.result = ErrorReply,
                                      !.failedAt = "generate"])
         ELSE LET response == generate_response(tasks[t].msg,
                                                _get_system_prompt(tasks[t].ctype))
              IN  Put(t, [tasks[t] EXCEPT
                            !.pc = "update", !.resp = response,
                            !.written = Append(@, InteractionRecord(
                                            tasks[t].msg, response, tasks[t].ctype))])
    /\ UNCHANGED <<brain, agents>>

\* update_context has returned or raised; the result carries the counter as
\* it is now.
process_user_input_updated(t) ==
    /\ tasks[t].pc = "update"
    /\ tasks[t].op \in {"process_user_input", "chat_with_user_interface_agent"}
    /\ \E fault \in BOOLEAN :
         IF fault
         THEN Put(t, [tasks[t] EXCEPT !.pc = "done", !.result = ErrorReply,
                                      !.failedAt = "update"])
         ELSE Put(t, [tasks[t] EXCEPT
                        !.pc = "done", !.acked = @ + 1,
                        !.result = [success |-> TRUE, message |-> tasks[t].resp,
                                    context_type |-> tasks[t].ctype,
                                    interaction_id |-> interaction_count]])
    /\ UNCHANGED <<brain, agents>>

\* ------------------------------------------------------------- streaming
NotAvailableFragment ==
    <<"I apologize, but I'm not currently available. Please try again later.">>

ErrorFragment == <<"I apologize, but I encountered an error. Please try again.">>

\* stream_user_response up to its first await: the running check, then
\* build_context is awaited.  The consumer pulls the generator to its end.
stream_user_response_call(t) ==
    /\ tasks[t].pc = "idle"
    /\ \E m \in Messages, c \in ContextTypes :
         LET r == [NewTask("stream_user_response") EXCEPT !.msg = m, !.ctype = c]
         IN  IF ~is_running
             THEN Begin(t, [r EXCEPT !.pc = "done", !.out = <<NotAvailableFragment>>])
             ELSE Begin(t, [r EXCEPT !.pc = "build", !.touched = TRUE])
    /\ UNCHANGED <<brain, agents>>

\* build_context has returned or raised; the client's stream is opened.
stream_user_response_built(t) ==
    /\ tasks[t].pc = "build"
    /\ tasks[t].op = "stream_user_response"
    /\ \E fault \in BOOLEAN :
         IF fault \/ ~context_manager \/ ollama_client = None
         THEN Put(t, [tasks[t] EXCEPT !.pc = "done", !.out = Append(@, ErrorFragment),
                                      !.failedAt = "build"])
         ELSE Put(t, [tasks[t] EXCEPT
                        !.pc = "stream",
                        !.left = stream_response(tasks[t].msg,
                                                 _get_system_prompt(tasks[t].ctype))])
    /\ UNCHANGED <<brain, agents>>

\* The stream has yielded its next fragment, has ended or has raised.  A
\* fragment is added to full_response and yielded; at the end the record is
\* built from full_response and the counter as it is now, and update_context
\* is awaited.
stream_user_response_chunk(t) ==
    /\ tasks[t].pc = "stream"
    /\ \E fault \in BOOLEAN :
         IF fault
         THEN Put(t, [tasks[t] EXCEPT !.pc = "done", !.out = Append(@, ErrorFragment),
                                      !.failedAt = "stream"])
         ELSE IF tasks[t].left # <<>>
         THEN Put(t, [tasks[t] EXCEPT !.resp = @ \o Head(tasks[t].left),
                                      !.out = Append(@, Head(tasks[t].left)),
                                      !.left = Tail(@)])
         ELSE Put(t, [tasks[t] EXCEPT
                        !.pc = "update",
                        !.written = Append(@, InteractionRecord(
                                        tasks[t].msg, tasks[t].resp, tasks[t].ctype))])
    /\ UNCHANGED <<brain, agents>>

\* Mutant of stream_user_response_updated: the context write sits outside the
\* try, so its fault ends the generator with no apology fragment.
stream_user_response_updated_unguarded(t) ==
    /\ tasks[t].pc = "update"
    /\ tasks[t].op = "stream_user_response"
    /\ \E fault \in BOOLEAN :
         IF fault
         THEN Put(t, [tasks[t] EXCEPT !.pc = "done", !.failedAt = "update"])
         ELSE Put(t, [tasks[t] EXCEPT !.pc = "done", !.acked = @ + 1])
    /\ UNCHANGED <<brain, agents>>

\* update_context has returned or raised; the generator ends.
stream_user_response_updated(t) ==
    /\ tasks[t].pc = "update"
    /\ tasks[t].op = "stream_user_response"
    /\ \E fault \in BOOLEAN :
         IF fault
         THEN Put(t, [tasks[t] EXCEPT !.pc = "done", !.out = Append(@, ErrorFragment),
                                      !.failedAt = "update"])
         ELSE Put(t, [tasks[t] EXCEPT !.pc = "done", !.acked = @ + 1])
    /\ UNCHANGED <<brain, agents>>

\* ------------------------------------------------- user interface agent
\* chat_with_user_interface_agent: the running check, then the agent if there
\* is one, else process_user_input(message, "chat").
chat_with_user_interface_agent_call(t) ==
    /\ tasks[t].pc = "idle"
    /\ \E m \in Messages :
         LET r == [NewTask("chat_with_user_interface_agent") EXCEPT
                     !.msg = m, !.ctype = "chat"]
         IN  IF ~is_running
             THEN /\ Begin(t, [r EXCEPT !.pc = "done", !.result = NotRunningReply])
                  /\ UNCHANGED interaction_count
             ELSE IF ~user_interface
             THEN process_user_input_enter(t, r)
             ELSE /\ Begin(t, [r EXCEPT !.pc = "agent", !.touched = TRUE])
                  /\ UNCHANGED interaction_count
    /\ UNCHANGED <<is_running, startup_time, ollama_client, context_manager, nstarts, agents>>

\* Mutant of chat_with_user_interface_agent_returned: the agent's fault is
\* turned into an error result instead of falling back.
chat_with_user_interface_agent_returned_no_fallback(t) ==
    /\ tasks[t].pc = "agent"
    /\ \E fault \in BOOLEAN :
         IF fault
         THEN Put(t, [tasks[t] EXCEPT !.pc = "done", !.result = ErrorReply,
                                      !.failedAt = "agent"])
         ELSE \E ok \in BOOLEAN :
                Put(t, [tasks[t] EXCEPT
                          !.pc = "done",
                          !.result = [success |-> ok, agent |-> "user_interface"]])
    /\ UNCHANGED <<brain, agents>>

\* process_chat_message has returned its result or raised; a fault falls back
\* to process_user_input(message, "chat").
chat_with_user_interface_agent_returned(t) ==
    /\ tasks[t].pc = "agent"
    /\ \E fault \in BOOLEAN :
         IF fault
         THEN process_user_input_enter(t, [tasks[t] EXCEPT !.failedAt = "agent"])
         ELSE /\ \E ok \in BOOLEAN :
                   Put(t, [tasks[t] EXCEPT
                             !.pc = "done",
                             !.result = [success |-> ok, agent |-> "user_interface"]])
              /\ UNCHANGED interaction_count
    /\ UNCHANGED <<is_running, startup_time, ollama_client, context_manager, nstarts, agents>>

\* ------------------------------------------------------ command pipeline
\* What the Command Translator returns: a SystemAction.
SystemAction(id, d) ==
    [action_id |-> id, recommended_action |-> d, user_feedback |-> <<"feedback", d>>]

ControllerMissing == [success |-> FALSE, error |-> "SystemController not available"]

TranslateMissing ==
    [success |-> FALSE, error |-> "SystemController not available", action |-> None]

TranslateFault == [success |-> FALSE, error |-> "fault", action |-> None]

TranslateOk(a) == [success |-> TRUE, action |-> a, action_id |-> a.action_id]

\* translate_user_command: one guard for not running and for no controller,
\* then the translator is awaited.
translate_user_command_call(t) ==
    /\ tasks[t].pc = "idle"
    /\ IF ~is_running \/ ~system_controller
       THEN Begin(t, [NewTask("translate_user_command") EXCEPT
                        !.pc = "done", !.result = TranslateMissing])
       ELSE Begin(t, [NewTask("translate_user_command") EXCEPT
                        !.pc = "translate", !.touched = TRUE])
    /\ UNCHANGED <<brain, agents>>

translate_user_command_returned(t) ==
    /\ tasks[t].pc = "translate"
    /\ tasks[t].op = "translate_user_command"
    /\ \E fault \in BOOLEAN :
         IF fault
         THEN Put(t, [tasks[t] EXCEPT !.pc = "done", !.result = TranslateFault,
                                      !.failedAt = "translate"])
         ELSE \E id \in ActionIds, d \in Dispositions :
                Put(t, [tasks[t] EXCEPT !.pc = "done", !.action = SystemAction(id, d),
                                        !.result = TranslateOk(SystemAction(id, d))])
    /\ UNCHANGED <<brain, agents>>

\* execute_system_action(action), for whatever action the caller passes: the
\* same guard, then the executor is awaited with the action.
execute_system_action_call(t) ==
    /\ tasks[t].pc = "idle"
    /\ \E id \in ActionIds, d \in Dispositions :
         LET r == [NewTask("execute_system_action") EXCEPT !.action = SystemAction(id, d)]
         IN  IF ~is_running \/ ~system_controller
             THEN Begin(t, [r EXCEPT !.pc = "done", !.result = ControllerMissing])
             ELSE Begin(t, [r EXCEPT !.pc = "execute", !.touched = TRUE,
                                     !.executed = Append(@, d)])
    /\ UNCHANGED <<brain, agents>>

ExecutorFault == [success |-> FALSE, error |-> "fault"]

ExecutorReply(ok) == [success |-> ok, message |-> "done"]

execute_system_action_returned(t) ==
    /\ tasks[t].pc = "execute"
    /\ tasks[t].op = "execute_system_action"
    /\ \E fault \in BOOLEAN :
         IF fault
         THEN Put(t, [tasks[t] EXCEPT !.pc = "done", !.result = ExecutorFault,
                                      !.failedAt = "execute"])
         ELSE \E ok \in BOOLEAN :
                Put(t, [tasks[t] EXCEPT !.pc = "done", !.result = ExecutorReply(ok)])
    /\ UNCHANGED <<brain, agents>>

\* dict.get(key, default)
Get(d, key, default) == IF key \in DOMAIN d THEN d[key] ELSE default

\* The three results process_user_command builds from an action.
NeedsUserInput(a) ==
    [success |-> TRUE, requires_user_input |-> TRUE, message |-> a.user_feedback,
     action_id |-> a.action_id, recommended_action |-> a.recommended_action]

Executed(a, execution_result) ==
    [success |-> Get(execution_result, "success", FALSE),
     message |-> Get(execution_result, "message", "Action completed"),
     action_id |-> a.action_id, results |-> execution_result]

Denied(a) ==
    [success |-> FALSE, message |-> a.user_feedback, action_id |-> a.action_id,
     recommended_action |-> a.recommended_action]

\* process_user_command up to its first await: translate_user_command's guard
\* and its await of the translator.
process_user_command_call(t) ==
    /\ tasks[t].pc = "idle"
    /\ IF ~is_running \/ ~system_controller
       THEN Begin(t, [NewTask("process_user_command") EXCEPT
                        !.pc = "done", !.result = TranslateMissing])
       ELSE Begin(t, [NewTask("process_user_command") EXCEPT
                        !.pc = "translate", !.touched = TRUE])
    /\ UNCHANGED <<brain, agents>>

\* Mutants of process_user_command_branch: execute_system_action's guard
\* left out, and "request_clarification" missing from the first test.
process_user_command_branch_unguarded(t, a) ==
    IF a.recommended_action \in {"request_confirmation", "request_clarification"}
    THEN Put(t, [tasks[t] EXCEPT !.pc = "done", !.action = a, !.result = NeedsUserInput(a)])
    ELSE IF a.recommended_action = "execute"
    THEN Put(t, [tasks[t] EXCEPT !.pc = "execute", !.action = a,
                                 !.executed = Append(@, a.recommended_action)])
    ELSE Put(t, [tasks[t] EXCEPT !.pc = "done", !.action = a, !.result = Denied(a)])

process_user_command_branch_no_clarification(t, a) ==
    IF a.recommended_action \in {"request_confirmation"}
    THEN Put(t, [tasks[t] EXCEPT !.pc = "done", !.action = a, !.result = NeedsUserInput(a)])
    ELSE IF a.recommended_action = "execute"
    THEN IF ~is_running \/ ~system_controller
         THEN Put(t, [tasks[t] EXCEPT !.pc = "done", !.action = a,
                                      !.result = Executed(a, ControllerMissing)])
         ELSE Put(t, [tasks[t] EXCEPT !.pc = "execute", !.action = a,
                                      !.executed = Append(@, a.recommended_action)])
    ELSE Put(t, [tasks[t] EXCEPT !.pc = "done", !.action = a, !.result = Denied(a)])

\* The branch on recommended_action.value; for "execute" it enters
\* execute_system_action, whose guard is evaluated now.
process_user_command_branch(t, a) ==
    IF a.recommended_action \in {"request_confirmation", "request_clarification"}
    THEN Put(t, [tasks[t] EXCEPT !.pc = "done", !.action = a, !.result = NeedsUserInput(a)])
    ELSE IF a.recommended_action = "execute"
    THEN IF ~is_running \/ ~system_controller
         THEN Put(t, [tasks[t] EXCEPT !.pc = "done", !.action = a,
                                      !.result = Executed(a, ControllerMissing)])
         ELSE Put(t, [tasks[t] EXCEPT !.pc = "execute", !.action = a,
                                      !.executed = Append(@, a.recommended_action)])
    ELSE Put(t, [tasks[t] EXCEPT !.pc = "done", !.action = a, !.result = Denied(a)])

\* Mutant of process_user_command_translated: a failed translation comes back
\* as process_user_command's own error result.
process_user_command_translated_wrapped(t) ==
    /\ tasks[t].pc = "translate"
    /\ tasks[t].op = "process_user_command"
    /\ \E fault \in BOOLEAN :
         IF fault
         THEN Put(t, [tasks[t] EXCEPT
                        !.pc = "done", !.failedAt = "translate",
                        !.result = [success |-> FALSE, error |-> "fault",
                                    message |-> "I encountered an error processing your command."]])
         ELSE \E id \in ActionIds, d \in Dispositions :
                process_user_command_branch(t, SystemAction(id, d))
    /\ UNCHANGED <<brain, agents>>

\* The translator has returned a SystemAction or raised.
process_user_command_translated(t) ==
    /\ tasks[t].pc = "translate"
    /\ tasks[t].op = "process_user_command"
    /\ \E fault \in BOOLEAN :
         IF fault
         THEN Put(t, [tasks[t] EXCEPT !.pc = "done", !.result = TranslateFault,
                                      !.failedAt = "translate"])
         ELSE \E id \in ActionIds, d \in Dispositions :
                process_user_command_branch(t, SystemAction(id, d))
    /\ UNCHANGED <<brain, agents>>

\* The executor has returned or raised; execute_system_action turns a fault
\* into a result, and process_user_command wraps either.
process_user_command_executed(t) ==
    /\ tasks[t].pc = "execute"
    /\ tasks[t].op = "process_user_command"
    /\ \E fault \in BOOLEAN :
         IF fault
         THEN Put(t, [tasks[t] EXCEPT !.pc = "done", !.failedAt = "execute",
                                      !.result = Executed(tasks[t].action, ExecutorFault)])
         ELSE \E ok \in BOOLEAN :
                Put(t, [tasks[t] EXCEPT
                          !.pc = "done",
                          !.result = Executed(tasks[t].action, ExecutorReply(ok))])
    /\ UNCHANGED <<brain, agents>>

\* coordinate_system_action: the running check and a placeholder result; no
\* collaborator is called.
coordinate_system_action_call(t) ==
    /\ tasks[t].pc = "idle"
    /\ IF ~is_running
       THEN Begin(t, [NewTask("coordinate_system_action") EXCEPT
                        !.pc = "done",
                        !.result = [success |-> FALSE,
                                    error |-> "Central AI Brain is not running"]])
       ELSE Begin(t, [NewTask("coordinate_system_action") EXCEPT
                        !.pc = "done",
                        !.result = [success |-> TRUE, action_type |-> "unknown"]])
    /\ UNCHANGED <<brain, agents>>

\* ---------------------------------------------------------- delegations
BrainNotRunning == [success |-> FALSE, error |-> "Central AI Brain is not running"]

\* The guard shared by orchestrate_complex_task and the three trainer
\* operations: running, then the agent's presence, then the agent is awaited.
delegate_call(t, method, agent, missing) ==
    /\ tasks[t].pc = "idle"
    /\ IF ~is_running
       THEN Begin(t, [NewTask(method) EXCEPT !.pc = "done", !.result = BrainNotRunning])
       ELSE IF ~agent
       THEN Begin(t, [NewTask(method) EXCEPT
                        !.pc = "done", !.result = [success |-> FALSE, error |-> missing]])
       ELSE Begin(t, [NewTask(method) EXCEPT !.pc = "delegate", !.touched = TRUE])
    /\ UNCHANGED <<brain, agents>>

\* The agent has returned its result or raised.
delegate_returned(t) ==
    /\ tasks[t].pc = "delegate"
    /\ \E fault \in BOOLEAN :
         IF fault
         THEN Put(t, [tasks[t] EXCEPT !.pc = "done", !.failedAt = "delegate",
                                      !.result = [success |-> FALSE, error |-> "fault"]])
         ELSE \E ok \in BOOLEAN :
                Put(t, [tasks[t] EXCEPT !.pc = "done",
                                        !.result = [success |-> ok, agent |-> tasks[t].op]])
    /\ UNCHANGED <<brain, agents>>

orchestrate_complex_task_call(t) ==
    delegate_call(t, "orchestrate_complex_task", agent_orchestrator,
                  "Agent Orchestrator not available")

generate_training_labels_call(t) ==
    delegate_call(t, "generate_training_labels", embryo_trainer,
                  "Embryo Trainer not available")

validate_embryo_training_call(t) ==
    delegate_call(t, "validate_embryo_training", embryo_trainer,
                  "Embryo Trainer not available")

assess_embryo_birth_readiness_call(t) ==
    delegate_call(t, "assess_embryo_birth_readiness", embryo_trainer,
                  "Embryo Trainer not available")

\* ------------------------------------------------- state and placeholders
\* update_system_state: no running check and no try; with a Context Store its
\* update_context is awaited, and the method returns None.
update_system_state_call(t) ==
    /\ tasks[t].pc = "idle"
    /\ IF context_manager
       THEN Begin(t, [NewTask("update_system_state") EXCEPT
                        !.pc = "update", !.touched = TRUE,
                        !.written = Append(@, [system_state |-> "state_update"])])
       ELSE Begin(t, [NewTask("update_system_state") EXCEPT !.pc = "done"])
    /\ UNCHANGED <<brain, agents>>

update_system_state_updated(t) ==
    /\ tasks[t].pc = "update"
    /\ tasks[t].op = "update_system_state"
    /\ \E fault \in BOOLEAN :
         IF fault
         THEN Put(t, [tasks[t] EXCEPT !.pc = "raised", !.failedAt = "update"])
         ELSE Put(t, [tasks[t] EXCEPT !.pc = "done", !.acked = @ + 1])
    /\ UNCHANGED <<brain, agents>>

\* validate_patterns: a placeholder result, whatever the state.
validate_patterns_call(t) ==
    /\ tasks[t].pc = "idle"
    /\ Begin(t, [NewTask("validate_patterns") EXCEPT
                   !.pc = "done",
                   !.result = [validated_patterns |-> "patterns",
                               validation_score |-> "0.85",
                               recommendations |-> <<"Pattern validation placeholder">>]])
    /\ UNCHANGED <<brain, agents>>

\* get_health_status as a public call: the collaborators' reports are read
\* without a try, so a report that raises ends the call.
get_health_status_call(t) ==
    /\ tasks[t].pc = "idle"
    /\ \E fault \in BOOLEAN :
         IF fault /\ (ollama_client # None \/ context_manager)
         THEN Begin(t, [NewTask("get_health_status") EXCEPT
                          !.pc = "raised", !.touched = TRUE, !.failedAt = "report"])
         ELSE Begin(t, [NewTask("get_health_status") EXCEPT
                          !.pc = "done", !.result = get_health_status,
                          !.touched = ollama_client # None \/ context_manager])
    /\ UNCHANGED <<brain, agents>>

\* get_system_insights: the counter, the uptime since startup_time (0 without
\* one) and the Context Store's summary.
get_system_insights_call(t) ==
    /\ tasks[t].pc = "idle"
    /\ \E fault \in BOOLEAN :
         IF fault /\ context_manager
         THEN Begin(t, [NewTask("get_system_insights") EXCEPT
                          !.pc = "raised", !.touched = TRUE, !.failedAt = "report"])
         ELSE Begin(t, [NewTask("get_system_insights") EXCEPT
                          !.pc = "done", !.touched = context_manager,
                          !.result =
                             [total_interactions |-> interaction_count,
                              uptime_hours |-> IF startup_time # None
                                               THEN nstarts + 1 - startup_time.at ELSE 0,
                              context_insights |-> IF context_manager
                                                   THEN ContextSummary ELSE None]])
    /\ UNCHANGED <<brain, agents>>

\* ------------------------------------------------------------ the system
Lifecycle(t) ==
    \/ start_call(t)
    \/ start_client_started(t)
    \/ stop_call(t)
    \/ stop_closed(t)
    \/ Return(t)

Conversation(t) ==
    \/ process_user_input_call(t)
    \/ process_user_input_built(t)
    \/ process_user_input_generated(t)
    \/ process_user_input_updated(t)
    \/ stream_user_response_call(t)
    \/ stream_user_response_built(t)
    \/ stream_user_response_chunk(t)
    \/ stream_user_response_updated(t)
    \/ chat_with_user_interface_agent_call(t)
    \/ chat_with_user_interface_agent_returned(t)

Commands(t) ==
    \/ translate_user_command_call(t)
    \/ translate_user_command_returned(t)
    \/ execute_system_action_call(t)
    \/ execute_system_action_returned(t)
    \/ process_user_command_call(t)
    \/ process_user_command_translated(t)
    \/ process_user_command_executed(t)
    \/ coordinate_system_action_call(t)

Delegations(t) ==
    \/ orchestrate_complex_task_call(t)
    \/ generate_training_labels_call(t)
    \/ validate_embryo_training_call(t)
    \/ assess_embryo_birth_readiness_call(t)
    \/ delegate_returned(t)
    \/ update_system_state_call(t)
    \/ update_system_state_updated(t)
    \/ validate_patterns_call(t)
    \/ get_health_status_call(t)
    \/ get_system_insights_call(t)

Next == \E t \in Tasks : Lifecycle(t) \/ Conversation(t) \/ Commands(t) \/ Delegations(t)

Spec == Init /\ [][Next]_vars

\* The families of operations touch each other only through the lifecycle
\* fields, which start and stop alone write, and through interaction_count,
\* which the conversational turns alone read and write.  Each family is
\* therefore checked with the lifecycle and without the other families.
NextLifecycle == \E t \in Tasks : Lifecycle(t)

SpecLifecycle == Init /\ [][NextLifecycle]_vars

NextConversation == \E t \in Tasks : Lifecycle(t) \/ Conversation(t)

SpecConversation == Init /\ [][NextConversation]_vars

NextCommands == \E t \in Tasks : Lifecycle(t) \/ Commands(t)

SpecCommands == Init /\ [][NextCommands]_vars

NextDelegations == \E t \in Tasks : Lifecycle(t) \/ Delegations(t)

SpecDelegations == Init /\ [][NextDelegations]_vars

\* ================================================================ claims
Done(t) == tasks[t].pc = "done"

Has(r, key) == key \in DOMAIN r

\* A result that reports a failure: a dict whose success is False.
IsFailure(r) == Has(r, "success") /\ r.success = FALSE

\* The call of process_user_command in slot t got a SystemAction of
\* disposition d from the translator and has returned.
CommandDone(t, d) ==
    /\ tasks[t].op = "process_user_command"
    /\ Done(t)
    /\ tasks[t].action # None
    /\ tasks[t].action.recommended_action = d

\* C1: the Action Executor is never called with a SystemAction whose
\* recommended_action is not "execute", whatever public operation made the
\* call.
C1_ExecutorOnlyOnExecute ==
    \A t \in Tasks : \A i \in 1..Len(tasks[t].executed) :
        tasks[t].executed[i] = "execute"

\* C2, as claimed: a process_user_command call whose translation gave
\* "execute" has called the Action Executor exactly once when it returns.
C2_ExecutedExactlyOnce ==
    \A t \in Tasks : CommandDone(t, "execute") => Len(tasks[t].executed) = 1

\* C2, amended: when the translator returns "execute" to process_user_command,
\* the executor is called once, then and there, if the brain is still running
\* and has its system controller; if the brain was stopped while the
\* translator was awaited, the executor is not called and the call returns
\* success = false.  No call of process_user_command calls the executor twice.
C2_ExecutedOnceIfStillRunning ==
    /\ [](\A t \in Tasks :
            tasks[t].op = "process_user_command" =>
                /\ Len(tasks[t].executed) <= 1
                /\ tasks[t].pc = "execute" => Len(tasks[t].executed) = 1)
    /\ [][\A t \in Tasks :
            ( /\ tasks[t].op = "process_user_command"
              /\ tasks[t].pc = "translate"
              /\ tasks'[t].pc # "translate"
              /\ tasks'[t].action # None
              /\ tasks'[t].action.recommended_action = "execute" )
            => IF is_running /\ system_controller
               THEN /\ tasks'[t].pc = "execute"
                    /\ tasks'[t].executed = <<"execute">>
               ELSE /\ tasks'[t].pc = "done"
                    /\ tasks'[t].executed = <<>>
                    /\ IsFailure(tasks'[t].result)]_vars

\* C2 witness: a process_user_command call got "execute" from the translator
\* after a concurrent stop, and returned without an executor call.
C2_StoppedBeforeExecute ==
    \E t \in Tasks :
        /\ CommandDone(t, "execute")
        /\ tasks[t].executed = <<>>
        /\ ~is_running
        /\ \E u \in Tasks \ {t} : tasks[u].op = "stop" /\ Done(u)

\* C3: after a successful translation, request_confirmation and
\* request_clarification return requires_user_input = true with the action's
\* user_feedback as message and its action_id; deny returns success = false
\* with the user_feedback and the action_id; none of the three calls the
\* Action Executor.
C3_DispositionDecidesResult ==
    \A t \in Tasks :
        LET r == tasks[t].result
            a == tasks[t].action
        IN  /\ \A d \in {"request_confirmation", "request_clarification"} :
                 CommandDone(t, d) =>
                    /\ Has(r, "requires_user_input") /\ r.requires_user_input = TRUE
                    /\ r.message = a.user_feedback
                    /\ r.action_id = a.action_id
                    /\ tasks[t].executed = <<>>
            /\ CommandDone(t, "deny") =>
                    /\ IsFailure(r)
                    /\ r.message = a.user_feedback
                    /\ r.action_id = a.action_id
                    /\ tasks[t].executed = <<>>

\* C3 witness: one call has returned for a denied action and another for an
\* action that needs confirmation.
C3_DeniedAndDeferred ==
    \E t, u \in Tasks :
        /\ CommandDone(t, "deny")
        /\ CommandDone(u, "request_confirmation")
        /\ tasks[t].action.action_id # tasks[u].action.action_id

\* The operations C4 is about: every public operation but start, stop and the
\* health reports.
GuardedOperations ==
    {"process_user_input", "chat_with_user_interface_agent", "stream_user_response",
     "coordinate_system_action", "orchestrate_complex_task", "update_system_state",
     "validate_patterns", "generate_training_labels", "validate_embryo_training",
     "assess_embryo_birth_readiness", "translate_user_command",
     "execute_system_action", "process_user_command"}

\* C4: a guarded operation called while is_running is false returns a
\* failure result (for the stream: the single apology fragment), has called
\* no collaborator and has not raised.
C4_NotRunningRejected ==
    \A t \in Tasks :
        (tasks[t].op \in GuardedOperations /\ ~tasks[t].wasRunning) =>
            /\ Done(t)
            /\ ~tasks[t].touched
            /\ IF tasks[t].op = "stream_user_response"
               THEN tasks[t].out = <<NotAvailableFragment>>
               ELSE IsFailure(tasks[t].result)

\* The call in slot t is a process_user_input call that returned success.
InputSucceeded(t) ==
    /\ tasks[t].op = "process_user_input"
    /\ Done(t)
    /\ Has(tasks[t].result, "success") /\ tasks[t].result.success = TRUE

\* C5: two process_user_input calls on the same running instance return
\* different interaction_id values and write records with different
\* interaction_id values.
C5_DistinctInteractionIds ==
    \A t, u \in Tasks :
        (t # u /\ InputSucceeded(t) /\ InputSucceeded(u)) =>
            /\ tasks[t].result.interaction_id # tasks[u].result.interaction_id
            /\ tasks[t].written[1].interaction_id # tasks[u].written[1].interaction_id

\* The call in slot t went through the brain's own conversational path (not
\* the User-Interface Agent's) and has ended.
TurnEnded(t) ==
    /\ tasks[t].op \in Conversational
    /\ Done(t)
    /\ ~Has(tasks[t].result, "agent")

\* The turn was completed: the response was generated and recorded.
TurnCompleted(t) ==
    /\ TurnEnded(t)
    /\ tasks[t].acked = 1
    /\ tasks[t].failedAt \in {NoText, "agent"}

\* C6: a conversational call raises interaction_count by exactly 1 if it
\* completes a turn and by 0 if it does not (rejected as not running, or
\* failed in context build or generation).
C6_CountedOncePerCompletedTurn ==
    \A t \in Tasks :
        TurnEnded(t) => tasks[t].incs = IF TurnCompleted(t) THEN 1 ELSE 0

\* C7: a start that fails because the Generation Client reports unhealthy
\* leaves is_running false.
C7_UnhealthyStartNotRunning ==
    [][\A t \in Tasks :
         ( /\ tasks[t].pc = "client_start"
           /\ tasks'[t].pc = "raised"
           /\ tasks'[t].failedAt = "unhealthy" ) => ~is_running']_vars

\* C8: stop returns without raising and leaves is_running false, whatever the
\* client's close() does.
C8_StopLeavesNotRunning ==
    [][\A t \in Tasks :
         ( /\ tasks'[t].op = "stop"
           /\ tasks[t].pc # tasks'[t].pc
           /\ tasks'[t].pc \in {"done", "raised"} )
         => (tasks'[t].pc = "done" /\ ~is_running')]_vars

\* C9: a process_user_input call and a fully consumed stream_user_response
\* call, each made alone on a running brain with the same message, context
\* type and interaction_count and each meeting no fault, give the same
\* response text and pass the same records to update_context.
C9_StreamEqualsInput ==
    \A t, u \in Tasks :
        ( /\ tasks[t].op = "process_user_input" /\ Done(t)
          /\ tasks[u].op = "stream_user_response" /\ Done(u)
          /\ tasks[t].wasRunning /\ tasks[u].wasRunning
          /\ tasks[t].solo /\ tasks[u].solo
          /\ tasks[t].failedAt = NoText /\ tasks[u].failedAt = NoText
          /\ tasks[t].msg = tasks[u].msg
          /\ tasks[t].ctype = tasks[u].ctype
          /\ tasks[t].count0 = tasks[u].count0 )
        => /\ tasks[t].result.message = Join(tasks[u].out)
           /\ tasks[t].written = tasks[u].written

\* C10: a process_user_input call passes no record to the Context Store
\* before its generation call has returned; once it has, exactly one; a call
\* that returns success = true has made exactly one update_context call, for
\* its own response, and that call has returned; a call that failed in context
\* build or generation has made none.
C10_OneWriteAfterGeneration ==
    \A t \in Tasks :
        tasks[t].op = "process_user_input" =>
            /\ tasks[t].pc \in {"build", "generate"} => tasks[t].written = <<>>
            /\ tasks[t].pc = "update" =>
                  (Len(tasks[t].written) = 1 /\ tasks[t].acked = 0)
            /\ InputSucceeded(t) =>
                  /\ Len(tasks[t].written) = 1
                  /\ tasks[t].acked = 1
                  /\ tasks[t].written[1].assistant_response = tasks[t].result.message
                  /\ tasks[t].written[1].user_message = tasks[t].msg
            /\ (Done(t) /\ tasks[t].failedAt \in {"build", "generate"}) =>
                  (tasks[t].written = <<>> /\ IsFailure(tasks[t].result))

\* C10 witness: one process_user_input call has returned success and another
\* has failed in generation.
C10_SucceededAndFailed ==
    \E t, u \in Tasks :
        /\ InputSucceeded(t)
        /\ tasks[u].op = "process_user_input" /\ Done(u)
        /\ tasks[u].failedAt = "generate"


\* In this step the call in slot t enters process_user_input(message, "chat"):
\* rejected if the brain is not running, else counted and suspended at
\* build_context.
EntersInput(t, message) ==
    IF is_running
    THEN /\ tasks'[t].pc = "build"
         /\ tasks'[t].msg = message /\ tasks'[t].ctype = "chat"
         /\ interaction_count' = interaction_count + 1
    ELSE /\ tasks'[t].pc = "done"
         /\ tasks'[t].result = NotRunningReply

\* What process_user_input(message, "chat") can return.
IsInputResult(t) ==
    LET r == tasks[t].result
    IN  \/ r \in {NotRunningReply, ErrorReply}
        \/ /\ r = [success |-> TRUE,
                   message |-> generate_response(tasks[t].msg, _get_system_prompt("chat")),
                   context_type |-> "chat",
                   interaction_id |-> r.interaction_id]
           /\ Len(tasks[t].written) = 1
           /\ tasks[t].written[1].user_message = tasks[t].msg
           /\ tasks[t].written[1].context_type = "chat"

\* C11: while running, chat_with_user_interface_agent awaits the agent's
\* process_chat_message when the agent is present and returns its result; when
\* the agent is absent or raises, the call goes through process_user_input
\* (message, "chat") and returns what that returns; the call never raises.
C11_ChatDelegatesOrFallsBack ==
    /\ [](\A t \in Tasks :
            tasks[t].op = "chat_with_user_interface_agent" =>
                /\ tasks[t].pc # "raised"
                /\ (Done(t) /\ ~Has(tasks[t].result, "agent")) => IsInputResult(t))
    /\ [][\A t \in Tasks :
            /\ ( /\ tasks[t].pc = "idle"
                 /\ tasks'[t].op = "chat_with_user_interface_agent"
                 /\ is_running )
               => IF user_interface
                  THEN tasks'[t].pc = "agent" /\ UNCHANGED interaction_count
                  ELSE EntersInput(t, tasks'[t].msg)
            /\ (tasks[t].pc = "agent" /\ tasks'[t].pc # "agent")
               => \/ Done(t)' /\ Has(tasks'[t].result, "agent")
                  \/ EntersInput(t, tasks[t].msg)]_vars

\* C11 witness: a chat call whose agent raised has come back with the success
\* result of the fallback.
C11_FellBackAfterAgentFault ==
    \E t \in Tasks :
        /\ tasks[t].op = "chat_with_user_interface_agent"
        /\ Done(t)
        /\ tasks[t].failedAt = "agent"
        /\ tasks[t].result.success = TRUE


\* The core-to-collaborator delegations C12 lists.
DelegatingOperations ==
    {"orchestrate_complex_task", "generate_training_labels", "validate_embryo_training",
     "assess_embryo_birth_readiness", "translate_user_command", "execute_system_action",
     "update_system_state"}

\* The collaborator an operation delegates to is present.
CollaboratorPresent(o) ==
    IF o = "orchestrate_complex_task" THEN agent_orchestrator
    ELSE IF o \in {"translate_user_command", "execute_system_action"} THEN system_controller
    ELSE IF o = "update_system_state" THEN context_manager
    ELSE embryo_trainer

\* The failure that names the missing collaborator.
NotAvailable(o) ==
    IF o = "orchestrate_complex_task" THEN "Agent Orchestrator not available"
    ELSE IF o \in {"translate_user_command", "execute_system_action"}
    THEN "SystemController not available"
    ELSE IF o = "update_system_state" THEN "Context Store not available"
    ELSE "Embryo Trainer not available"

\* C12: every delegation first returns the 'not running' failure, without
\* touching the collaborator, if the brain is not running; else the
\* 'not available' failure naming the collaborator if it is absent; else it
\* delegates, and a fault of the collaborator becomes a success = false
\* result, never an exception.
C12_UniformGuard ==
    [][\A t \in Tasks :
         /\ (tasks[t].pc = "idle" /\ tasks'[t].op \in DelegatingOperations)
            => IF ~is_running
               THEN /\ Done(t)' /\ ~tasks'[t].touched
                    /\ IsFailure(tasks'[t].result)
                    /\ tasks'[t].result.error = "Central AI Brain is not running"
               ELSE IF ~CollaboratorPresent(tasks'[t].op)
               THEN /\ Done(t)' /\ ~tasks'[t].touched
                    /\ IsFailure(tasks'[t].result)
                    /\ tasks'[t].result.error = NotAvailable(tasks'[t].op)
               ELSE tasks'[t].touched /\ ~Done(t)'
         /\ (tasks'[t].op \in DelegatingOperations /\ tasks'[t].failedAt # NoText)
            => (Done(t)' /\ IsFailure(tasks'[t].result))]_vars


\* C13: no call of a public operation ends by raising to its caller, whatever
\* the state and whatever the collaborators do.
C13_NeverRaises ==
    \A t \in Tasks : tasks[t].pc # "raised"


\* The specialized agent of a class is present.
AgentPresent(class) ==
    IF class = "UserInterfaceAgent" THEN user_interface
    ELSE IF class = "AgentOrchestrator" THEN agent_orchestrator
    ELSE IF class = "EmbryoTrainer" THEN embryo_trainer
    ELSE system_controller

\* C14: a start with a healthy client in which the construction of one
\* specialized agent fails ends with is_running true and with every other
\* specialized agent present.
C14_OnlyFailedAgentAbsent ==
    [][\A t \in Tasks :
         ( /\ tasks[t].pc = "client_start"
           /\ Done(t)'
           /\ tasks'[t].failedAt # NoText )
         => /\ is_running'
            /\ \A i \in 1..Len(AgentClasses) :
                 AgentClasses[i] # tasks'[t].failedAt => AgentPresent(AgentClasses[i])']_vars


\* C15: a stop that leaves is_running false leaves startup_time absent, so a
\* stopped brain reports no startup_time and no uptime.
C15_StopClearsStartupTime ==
    [][\A t \in Tasks :
         ( /\ tasks'[t].op = "stop"
           /\ ~Done(t) /\ Done(t)'
           /\ ~is_running' )
         => /\ startup_time' = None
            /\ get_health_status'.startup_time = None]_vars


IsPrefix(p, s) == Len(p) <= Len(s) /\ \A i \in 1..Len(p) : p[i] = s[i]

\* The fragments the Generation Client streams for the call in slot t.
Fragments(t) == stream_response(tasks[t].msg, _get_system_prompt(tasks[t].ctype))

\* C16: stream_user_response yields a finite sequence and does not raise.
\* Called when not running it yields the one "not available" apology and
\* nothing else.  A fault after the running check (context build, the stream,
\* the context write) ends it with exactly one error apology, after the
\* fragments already yielded; without a fault it yields the client's fragments.
C16_StreamEndsWithOneApology ==
    \A t \in Tasks :
        tasks[t].op = "stream_user_response" =>
            LET out == tasks[t].out
            IN  /\ tasks[t].pc # "raised"
                /\ ~Done(t) => IsPrefix(out, Fragments(t))
                /\ (Done(t) /\ ~tasks[t].wasRunning) => out = <<NotAvailableFragment>>
                /\ (Done(t) /\ tasks[t].wasRunning /\ tasks[t].failedAt # NoText) =>
                      /\ Len(out) >= 1
                      /\ out[Len(out)] = ErrorFragment
                      /\ IsPrefix(SubSeq(out, 1, Len(out) - 1), Fragments(t))
                /\ (Done(t) /\ tasks[t].wasRunning /\ tasks[t].failedAt = NoText) =>
                      out = Fragments(t)

\* C16 witness: one stream broke after two fragments and ended with the
\* apology; another failed in the context write after the whole stream.
C16_ApologyAfterFragments ==
    \E t, u \in Tasks :
        /\ tasks[t].op = "stream_user_response" /\ Done(t)
        /\ tasks[t].failedAt = "stream" /\ Len(tasks[t].out) = 3
        /\ tasks[u].op = "stream_user_response" /\ Done(u)
        /\ tasks[u].failedAt = "update"


\* C17: no step of any execution lowers interaction_count: not a stop, not a
\* failed start or a restart, not a failed turn.
C17_CountNeverDecreases ==
    [][interaction_count' >= interaction_count]_vars

\* C17 witness: turns have been counted, the brain has been stopped and a
\* later start has failed.
C17_CountedThenStopped ==
    \E t, u \in Tasks :
        /\ tasks[t].op = "stop" /\ Done(t)
        /\ tasks[u].op = "start" /\ tasks[u].pc = "raised"
        /\ ~is_running
        /\ interaction_count >= 1


\* C18: get_health_status and get_system_insights leave is_running,
\* startup_time, interaction_count and every collaborator reference as they
\* were, write nothing to the Context Store and run no action; without a
\* Generation Client the reported ollama_healthy is false, and without a
\* Context Store the reported summary is absent.
ReadOperations == {"get_health_status", "get_system_insights"}

C18_ReadsOnly ==
    [][\A t \in Tasks :
         (tasks[t].pc = "idle" /\ tasks'[t].op \in ReadOperations) =>
            /\ UNCHANGED <<brain, agents>>
            /\ tasks'[t].written = <<>>
            /\ tasks'[t].executed = <<>>
            /\ (tasks'[t].op = "get_health_status" /\ Done(t)') =>
                  /\ (ollama_client = None => tasks'[t].result.ollama_healthy = FALSE)
                  /\ (~context_manager =>
                         tasks'[t].result.context_manager_status = None)
            /\ (tasks'[t].op = "get_system_insights" /\ Done(t)' /\ ~context_manager) =>
                  tasks'[t].result.context_insights = None]_vars

\* C18 witness: both aggregations have answered a brain that has neither a
\* Generation Client nor a Context Store.
C18_ReportedWithoutCollaborators ==
    \E t, u \in Tasks :
        /\ tasks[t].op = "get_health_status" /\ Done(t)
        /\ tasks[u].op = "get_system_insights" /\ Done(u)
        /\ ollama_client = None /\ ~context_manager
        /\ tasks[t].result.ollama_healthy = FALSE
        /\ tasks[u].result.context_insights = None


\* C19: a process_user_command whose translate step failed (the brain not
\* running, no system controller, or the translator raising) returns exactly
\* what translate_user_command returns for that failure, has looked at no
\* disposition and has not called the Action Executor.
TranslateFailed(t) ==
    /\ tasks[t].op = "process_user_command"
    /\ Done(t)
    /\ tasks[t].action = None

C19_TranslateFailurePropagated ==
    /\ [](\A t \in Tasks :
            TranslateFailed(t) =>
               /\ tasks[t].executed = <<>>
               /\ tasks[t].result =
                     IF tasks[t].failedAt = "translate"
                     THEN TranslateFault ELSE TranslateMissing)
    /\ [][\A t \in Tasks :
            (tasks[t].op # "process_user_command" \/ ~Done(t)) /\ TranslateFailed(t)' =>
               IF tasks[t].pc = "idle"
               THEN (~is_running \/ ~system_controller)
                    /\ tasks'[t].result = TranslateMissing
               ELSE tasks[t].pc = "translate"
                    /\ tasks'[t].result = TranslateFault]_vars

\* C19 witness: one command was turned away by the guard and another by a
\* translator that raised.
C19_BothTranslateFailures ==
    \E t, u \in Tasks :
        /\ TranslateFailed(t) /\ tasks[t].result = TranslateMissing
        /\ TranslateFailed(u) /\ tasks[u].result = TranslateFault


\* C20: whenever is_running is true the Generation Client and the Context
\* Store are both present, and so they are for every conversational call that
\* has passed the running check and is waiting on one of them.
PastRunningCheck(t) ==
    /\ tasks[t].op \in Conversational
    /\ tasks[t].pc \in {"agent", "build", "generate", "stream", "update"}

CorePresent == ollama_client # None /\ context_manager

C20_RunningHasCoreCollaborators ==
    /\ is_running => CorePresent
    /\ \A t \in Tasks : PastRunningCheck(t) => CorePresent

\* C20 witness: a running brain with a turn waiting on the Generation Client
\* while a second start is in flight.
C20_RunningWithTurnInFlight ==
    \E t, u \in Tasks :
        /\ is_running
        /\ PastRunningCheck(t) /\ tasks[t].pc = "generate"
        /\ tasks[u].op = "start" /\ tasks[u].pc = "client_start"


\* C21: no process_user_input and no stream_user_response that is suspended
\* at build_context goes on to call generate_response or stream_response on a
\* Generation Client that stop has closed in the meantime.
CallsGenerationClient(t) ==
    /\ tasks[t].op \in Conversational
    /\ tasks[t].pc = "build"
    /\ tasks'[t].pc \in {"generate", "stream"}

C21_NoCallToClosedClient ==
    [][\A t \in Tasks :
         CallsGenerationClient(t) =>
            IF ollama_client = None THEN FALSE ELSE ~ollama_client.closed]_vars

\* C22: a successful process_user_input has written a record whose
\* interaction_id is the one in its result, and both are the value its own
\* increment gave the counter.
C22_OwnInteractionId ==
    \A t \in Tasks :
        InputSucceeded(t) =>
            /\ tasks[t].written[1].interaction_id = tasks[t].result.interaction_id
            /\ tasks[t].result.interaction_id = tasks[t].count0 + 1

====
